---- MODULE Spec2Model ----
(***************************************************************************)
(* Model of the home-readiness scoring engine of src/src/calculator.ts.    *)
(*                                                                         *)
(* Number representation.  The source computes in IEEE doubles; the model  *)
(* computes in integers, with every quantity held in the unit that keeps   *)
(* it exact or accurate to one unit:                                       *)
(*   - prices, savings, annual income, monthly debts: whole dollars;       *)
(*   - monthly income: twelfths of a dollar (annual income / 12 is then    *)
(*     exact: the number of twelfths is the annual income);                *)
(*   - payments and obligations: U = 1/10000 dollar;                       *)
(*   - the loan amount: mills (1/1000 dollar), so price * 0.965 is exact.  *)
(* Math.round(x) is floor(x + 1/2), as in JavaScript.                      *)
(***************************************************************************)
EXTENDS Integers, Sequences, FiniteSets, TLC

VARIABLES pc, input, result, args, ret

vars == <<pc, input, result, args, ret>>

\* null / undefined of the source where a string is expected
Null == "null"

\* null where a credit score is expected (no score is negative)
NoScore == -1

\* null where an object is expected
NullObject == [null |-> TRUE]

\* the booleans of an input, which may also be null
True == "true"

False == "false"

(***************************************************************************)
(* Fixed-point helpers.                                                    *)
(***************************************************************************)
Max(a, b) == IF a >= b THEN a ELSE b

Min(a, b) == IF a <= b THEN a ELSE b

Abs(a) == IF a < 0 THEN -a ELSE a

\* Math.round of the quotient n / d (d > 0): floor(n / d + 1/2)
RoundDiv(n, d) == (2 * n + d) \div (2 * d)

\* Math.ceil of the quotient n / d (d > 0)
CeilDiv(n, d) == -((-n) \div d)

\* a * f for an integer a < 2^31 and a fraction f = f[1]/10^4 + f[2]/10^8 + f[3]/10^12,
\* multiplied limb by limb (base 10^4) so that no product leaves 32 bits; the
\* result is the floor of the product to within one unit.
MulFix(a, f) ==
  LET a2 == a \div 100000000
      a1 == (a \div 10000) % 10000
      a0 == a % 10000
      t0 == a2 * f[1] * 10000 + a2 * f[2] + a1 * f[1]
      t1 == a2 * f[3] + a1 * f[2] + a0 * f[1]
      t2 == a1 * f[3] + a0 * f[2]
  IN  t0 + (t1 + t2 \div 10000) \div 10000

\* the first n decimal digits of r / d (0 <= r < d <= 2 * 10^8), as an integer
RECURSIVE FracDigits(_, _, _, _)
FracDigits(r, d, n, acc) ==
  IF n = 0 THEN acc
  ELSE LET q == (r * 10) \div d
       IN  FracDigits((r * 10) % d, d, n - 1, acc * 10 + q)

\* p * g / 10^9 for p <= 2 * 10^6 and a 9-digit fraction g, in limbs of 3 digits
MulFrac9(p, g) ==
  LET g1 == g \div 1000000
      g2 == (g \div 1000) % 1000
      g3 == g % 1000
  IN  (((p * g3) \div 1000 + p * g2) \div 1000 + p * g1) \div 1000

\* half of the spacing of the doubles around n (1 <= n < 2^17), in units of
\* 10^-20: 2^-53 is 11102 * 10^-20
RECURSIVE HalfUlp(_)
HalfUlp(n) == IF n < 2 THEN 11102 ELSE 2 * HalfUlp(n \div 2)

\* price * 0.035 in doubles.  The double nearest 0.035 exceeds it by 333 * 10^-20,
\* so where price * 0.035 is a whole number of dollars the product is that number
\* or, when price * 333 * 10^-20 passes half the spacing of the doubles there,
\* the next double above it (1200000 * 0.035 is 42000.00000000001).  TRUE when
\* the product is the double above: it decides a comparison with an equal whole
\* amount and a Math.ceil of a whole quotient.
ExceedsExact35(price) ==
  /\ (price * 35) % 1000 = 0
  /\ price > 0
  /\ price * 333 > HalfUlp((price * 35) \div 1000)

\* targetDti / 100 in doubles less targetDti / 100, in units of 10^-20, for the
\* ceilings explored (0.28 is held as 0.28000000000000002665)
PercentError(targetDti) ==
  CASE targetDti = 0 -> 0
    [] targetDti = 28 -> 2665
    [] targetDti = 31 -> -222
    [] targetDti = 36 -> -1332
    [] targetDti = 41 -> -2442
    [] targetDti = 43 -> -666
    [] targetDti = 45 -> 1110
    [] targetDti = 50 -> 0

\* monthlyIncome * (targetDti / 100) in doubles, for a monthly income of whole
\* dollars (given in twelfths): TRUE when the exact product is a whole number of
\* dollars and the double product is the double above it, as 5000 * (28 / 100)
\* is 1400.0000000000002.  The amounts the questionnaire resolves to meet the
\* ceilings 36 and 43 only, whose doubles lie below the exact percentage.
ExceedsExactPercent(monthlyIncome, targetDti) ==
  /\ monthlyIncome % 12 = 0
  /\ ((monthlyIncome \div 12) * targetDti) % 100 = 0
  /\ (monthlyIncome \div 12) * targetDti > 0
  /\ (monthlyIncome \div 12) * PercentError(targetDti)
       > HalfUlp(((monthlyIncome \div 12) * targetDti) \div 100)

\* Math.ceil(amount / 500) for an amount of the given mills, plus the excess of
\* a product that exceeds its whole value when exceeds is TRUE
MonthsAt500(mills, exceeds) ==
  CeilDiv(mills, 500 * 1000) + (IF exceeds /\ mills % (500 * 1000) = 0 THEN 1 ELSE 0)

(***************************************************************************)
(* Range resolvers (forward tables).                                       *)
(***************************************************************************)
CreditTokens == <<"below-580", "580-619", "620-659", "660-699", "700-739", "740-plus">>

IncomeTokens == <<"under-40k", "40k-60k", "60k-80k", "80k-100k", "100k-150k",
                  "150k-180k", "180k-220k", "220k-plus">>

PriceTokens == <<"under-400k", "400k-500k", "500k-600k", "600k-700k", "700k-800k",
                 "800k-900k", "900k-1m", "1m-plus">>

DownPaymentTokens == <<"under-10k", "10k-25k", "25k-50k", "50k-75k", "75k-100k",
                       "100k-140k", "140k-180k", "180k-220k", "220k-260k", "260k-plus">>

DebtTokens == <<"none", "under-250", "250-500", "500-1000", "1000-2000",
                "2000-2500", "2500-3000", "3000-plus">>

Range(s) == {s[i] : i \in 1..Len(s)}

\* the property names every object literal inherits from Object.prototype
ObjectPrototypeKeys ==
  {"constructor", "toString", "toLocaleString", "valueOf", "hasOwnProperty",
   "isPrototypeOf", "propertyIsEnumerable", "__proto__"}

\* what mapping[range] yields for an inherited name: a function or an object,
\* never a number and never null (no amount of the tables is negative)
InheritedMember == -2

\* mapping[range] ?? dflt over a table given as two parallel sequences; mapping
\* is an object literal, so a name it does not define is looked up on
\* Object.prototype, and ?? falls back to dflt on null and undefined only
Lookup(keys, vals, range, dflt) ==
  IF \E i \in 1..Len(keys) : keys[i] = range
  THEN vals[CHOOSE i \in 1..Len(keys) : keys[i] = range]
  ELSE IF range \in ObjectPrototypeKeys THEN InheritedMember
  ELSE dflt

getCreditScore(range) ==
  IF range = Null \/ range = "not-sure" THEN NoScore
  ELSE Lookup(CreditTokens, <<550, 600, 640, 680, 720, 760>>, range, NoScore)

getIncomeAmount(range) ==
  IF range = Null THEN 60000
  ELSE Lookup(IncomeTokens,
              <<35000, 50000, 70000, 90000, 125000, 165000, 200000, 250000>>,
              range, 60000)

getPriceAmount(range) ==
  IF range = Null THEN 500000
  ELSE Lookup(PriceTokens,
              <<350000, 450000, 550000, 650000, 750000, 850000, 950000, 1200000>>,
              range, 500000)

getDownPaymentAmount(range) ==
  IF range = Null THEN 20000
  ELSE Lookup(DownPaymentTokens,
              <<5000, 17500, 37500, 62500, 87500, 120000, 160000, 200000,
                240000, 300000>>,
              range, 20000)

getMonthlyDebtAmount(range) ==
  IF range = Null THEN 0
  ELSE Lookup(DebtTokens, <<0, 125, 375, 750, 1500, 2250, 2750, 3500>>, range, 0)

(***************************************************************************)
(* The questionnaire: every answer is a range token, absent, or a string   *)
(* no table knows.                                                         *)
(***************************************************************************)
Unrecognised == "other"

\* the statuses every veteran test of the source lists
VeteranStatuses == {"active", "veteran", "guard-reserve", "spouse"}

CreditAnswers == Range(CreditTokens) \cup {"not-sure", Null, Unrecognised}

IncomeAnswers == Range(IncomeTokens) \cup {Null, Unrecognised}

PriceAnswers == Range(PriceTokens) \cup {Null, Unrecognised}

DownPaymentAnswers == Range(DownPaymentTokens) \cup {Null, Unrecognised}

DebtAnswers == Range(DebtTokens) \cup {Null, Unrecognised}

FirstTimeBuyerAnswers == {True, False, Null}

VeteranAnswers == VeteranStatuses \cup {"none", Null, Unrecognised}

\* The inputs explored.  Every combination of the range tokens and of an absent
\* answer, for a buyer who is or is not a first-time buyer and is or is not a
\* veteran:
CoreInputs ==
  [creditScoreRange : Range(CreditTokens) \cup {"not-sure", Null},
   annualIncome : Range(IncomeTokens) \cup {Null},
   priceRange : Range(PriceTokens) \cup {Null},
   downPayment : Range(DownPaymentTokens) \cup {Null},
   monthlyDebts : Range(DebtTokens) \cup {Null},
   firstTimeBuyer : {True, False},
   veteranStatus : {"veteran", Null}]

\* and every value of the flags, with unrecognised strings in every field, over
\* a few tokens of each range:
FringeInputs ==
  [creditScoreRange : CreditAnswers,
   annualIncome : {Unrecognised, "40k-60k", "100k-150k"},
   priceRange : {Unrecognised, "under-400k", "700k-800k"},
   downPayment : {Unrecognised, "under-10k", "75k-100k"},
   monthlyDebts : {Unrecognised, "1000-2000"},
   firstTimeBuyer : FirstTimeBuyerAnswers,
   veteranStatus : VeteranAnswers]

ScoreInputs == CoreInputs \cup FringeInputs

(***************************************************************************)
(* Payment model.                                                          *)
(***************************************************************************)
\* U per dollar
UnitsPerDollar == 10000

\* CURRENT_RATE = 0.06, numPayments = 360: with r = 0.06 / 12 and
\* g = (1 + r)^360 = 6.0225752122..., the amortization factor r * g / (g - 1)
\* is 0.005995505251...; the payment in U per mill of loan is ten times that,
\* 0.059955052515 = 599/10^4 + 5505/10^8 + 2515/10^12.
MortgagePerMill == <<599, 5505, 2515>>

\* a payment that leaves the mortgage insurance out
paymentWithoutPmi(price) ==
  MulFix(price * 965, MortgagePerMill) + price * 10 + 100 * UnitsPerDollar

\* estimateMonthlyPayment(price) with the default downPaymentPercent = 0.035:
\* price in dollars, result in U.
estimateMonthlyPayment(price) ==
  LET downPayment == price * 35            \* mills
      loanAmount == price * 1000 - downPayment   \* mills
      mortgage == MulFix(loanAmount, MortgagePerMill)
      propertyTax == price * 10            \* price * 0.012 / 12 dollars
      insurance == 100 * UnitsPerDollar
      pmi == loanAmount \div 150           \* loanAmount * 0.008 / 12 dollars
  IN  mortgage + propertyTax + insurance + pmi

(***************************************************************************)
(* Point-allocation scorer.                                                *)
(***************************************************************************)
\* a veteran test that takes every answer but 'none' for service
anyStatusButNone(veteranStatus) == veteranStatus # Null /\ veteranStatus # "none"

\* a veteran test that takes active duty alone for service
activeDutyOnly(veteranStatus) == veteranStatus = "active"

\* veteranStatus && [...].includes(veteranStatus)
isVeteranEligible(veteranStatus) ==
  veteranStatus # Null /\ veteranStatus \in VeteranStatuses

\* !creditScore: null (or 0); an inherited member is truthy and compares false
\* with every threshold, as InheritedMember does
calculateCreditPoints(creditScore) ==
  IF creditScore = NoScore \/ creditScore = 0 THEN 15
  ELSE IF creditScore >= 740 THEN 30
  ELSE IF creditScore >= 720 THEN 27
  ELSE IF creditScore >= 700 THEN 24
  ELSE IF creditScore >= 680 THEN 20
  ELSE IF creditScore >= 660 THEN 17
  ELSE IF creditScore >= 640 THEN 14
  ELSE IF creditScore >= 620 THEN 10
  ELSE IF creditScore >= 580 THEN 5
  ELSE IF creditScore >= 500 THEN 2
  ELSE 0

\* a threshold test with the comparison inverted
DtiAbove(totalObligations, monthlyIncome, t) ==
  3 * totalObligations > 25 * t * monthlyIncome

\* dti < t, where dti = totalObligations / monthlyIncome * 100:
\* totalObligations in U, monthlyIncome in twelfths of a dollar, so
\* dti = (total / 10^4) / (income12 / 12) * 100 = 3 * total / (25 * income12).
DtiBelow(totalObligations, monthlyIncome, t) ==
  3 * totalObligations < 25 * t * monthlyIncome

calculateDtiPoints(monthlyIncome, targetPrice, monthlyDebts) ==
  LET totalObligations == estimateMonthlyPayment(targetPrice) + monthlyDebts * UnitsPerDollar
  IN  IF DtiBelow(totalObligations, monthlyIncome, 28) THEN 25
      ELSE IF DtiBelow(totalObligations, monthlyIncome, 36) THEN 22
      ELSE IF DtiBelow(totalObligations, monthlyIncome, 41) THEN 18
      ELSE IF DtiBelow(totalObligations, monthlyIncome, 44) THEN 14
      ELSE IF DtiBelow(totalObligations, monthlyIncome, 50) THEN 10
      ELSE IF DtiBelow(totalObligations, monthlyIncome, 57) THEN 5
      ELSE 0

\* percentage >= t / 10, where percentage = saved / targetPrice * 100
PercentageAtLeast(saved, targetPrice, tenths) ==
  saved * 1000 >= tenths * targetPrice

\* down payment points that give nothing below 20 percent
downPaymentPointsOrNothing(saved, targetPrice, veteranStatus) ==
  IF isVeteranEligible(veteranStatus) THEN 15
  ELSE IF PercentageAtLeast(saved, targetPrice, 200) THEN 20
  ELSE 0

\* a down-payment scale whose 7-point step starts at 4% and not at the 3.5% minimum
downPaymentPointsSteppingAtFour(saved, targetPrice, veteranStatus) ==
  IF isVeteranEligible(veteranStatus) THEN 15
  ELSE IF PercentageAtLeast(saved, targetPrice, 200) THEN 20
  ELSE IF PercentageAtLeast(saved, targetPrice, 150) THEN 17
  ELSE IF PercentageAtLeast(saved, targetPrice, 100) THEN 14
  ELSE IF PercentageAtLeast(saved, targetPrice, 50) THEN 10
  ELSE IF PercentageAtLeast(saved, targetPrice, 40) THEN 7
  ELSE IF PercentageAtLeast(saved, targetPrice, 30) THEN 5
  ELSE IF PercentageAtLeast(saved, targetPrice, 10) THEN 3
  ELSE 1

calculateDownPaymentPoints(saved, targetPrice, veteranStatus) ==
  IF isVeteranEligible(veteranStatus) THEN 15
  ELSE IF PercentageAtLeast(saved, targetPrice, 200) THEN 20
  ELSE IF PercentageAtLeast(saved, targetPrice, 150) THEN 17
  ELSE IF PercentageAtLeast(saved, targetPrice, 100) THEN 14
  ELSE IF PercentageAtLeast(saved, targetPrice, 50) THEN 10
  ELSE IF PercentageAtLeast(saved, targetPrice, 35) THEN 7
  ELSE IF PercentageAtLeast(saved, targetPrice, 30) THEN 5
  ELSE IF PercentageAtLeast(saved, targetPrice, 10) THEN 3
  ELSE 1

calculateEmploymentPoints == 12

calculateReservesPoints(saved, targetPrice) ==
  \* downPaymentNeeded = targetPrice * 0.035, in mills; reserves in mills
  LET reserves == Max(0, saved * 1000 - targetPrice * 35)
      monthlyPiti == estimateMonthlyPayment(targetPrice)                   \* U
      \* months >= m, months = reserves / monthlyPiti
      MonthsAtLeast(m) == reserves >= CeilDiv(m * monthlyPiti, 10)
  IN  IF MonthsAtLeast(6) THEN 10
      ELSE IF MonthsAtLeast(4) THEN 8
      ELSE IF MonthsAtLeast(3) THEN 6
      ELSE IF MonthsAtLeast(2) THEN 4
      ELSE IF MonthsAtLeast(1) THEN 2
      ELSE 0

calculateBonusPoints(firstTimeBuyer, veteranStatus) ==
  (IF isVeteranEligible(veteranStatus) THEN 10 ELSE 0)
  + (IF firstTimeBuyer = True THEN 5 ELSE 0)

getStatus(score) ==
  IF score >= 85 THEN "READY_NOW"
  ELSE IF score >= 75 THEN "ALMOST_READY"
  ELSE IF score >= 60 THEN "GETTING_CLOSE"
  ELSE IF score >= 45 THEN "BUILDING"
  ELSE IF score >= 25 THEN "EARLY_STAGE"
  ELSE "JUST_EXPLORING"

\* a timeline whose last step comes late
timelineSteppingLate(score) ==
  IF score >= 90 THEN "0-1 months"
  ELSE IF score >= 75 THEN "1-2 months"
  ELSE IF score >= 60 THEN "3-6 months"
  ELSE IF score >= 45 THEN "6-12 months"
  ELSE IF score >= 25 THEN "12-18 months"
  ELSE "18+ months"

getTimeline(score) ==
  IF score >= 85 THEN "0-1 months"
  ELSE IF score >= 75 THEN "1-2 months"
  ELSE IF score >= 60 THEN "3-6 months"
  ELSE IF score >= 45 THEN "6-12 months"
  ELSE IF score >= 25 THEN "12-18 months"
  ELSE "18+ months"

getColor(status) ==
  CASE status = "READY_NOW" -> "red"
    [] status = "ALMOST_READY" -> "orange"
    [] status = "GETTING_CLOSE" -> "yellow"
    [] OTHER -> "blue"

(***************************************************************************)
(* Affordability inverter.                                                 *)
(***************************************************************************)
MinPrice == 100000

MaxPrice == 2000000

StartingGuess == 300000

Iterations == 20

PriceStep == 5000

\* one pass of the loop body: price * (maxHousingPayment / payment), before
\* the clamp; the ratio is taken to nine decimals and the price kept to the
\* dollar.  A scaled price beyond MaxPrice is reported as MaxPrice + 1.
ScaledPrice(price, maxHousingPayment) ==
  LET payment == estimateMonthlyPayment(price)
  IN  IF maxHousingPayment \div payment > MaxPrice \div price THEN MaxPrice + 1
      ELSE price * (maxHousingPayment \div payment)
           + MulFrac9(price, FracDigits(maxHousingPayment % payment, payment, 9, 0))

RECURSIVE PriceIteration(_, _, _)
PriceIteration(i, price, maxHousingPayment) ==
  IF i >= Iterations THEN price
  ELSE LET scaled == ScaledPrice(price, maxHousingPayment)
       IN  \* Math.max(100000, Math.min(2000000, price))
           IF scaled >= MaxPrice THEN PriceIteration(i + 1, MaxPrice, maxHousingPayment)
           ELSE IF scaled <= MinPrice THEN PriceIteration(i + 1, MinPrice, maxHousingPayment)
           ELSE PriceIteration(i + 1, scaled, maxHousingPayment)

\* an inverter that forgets the monthly debts
maxPriceIgnoringDebts(monthlyIncome, monthlyDebts, targetDti) ==
  IF monthlyIncome * targetDti <= 0 THEN 0
  ELSE RoundDiv(PriceIteration(0, StartingGuess, (monthlyIncome * targetDti * 25) \div 3),
                PriceStep) * PriceStep

\* calculateMaxPriceForDti(monthlyIncome, monthlyDebts, targetDti) with the
\* default downPaymentPercent: monthlyIncome in twelfths of a dollar,
\* monthlyDebts in dollars, targetDti in whole percent; result in dollars.
\* maxTotalObligations = income12 / 12 * targetDti / 100 dollars
\*                     = income12 * targetDti * 25 / 3 U.
calculateMaxPriceForDti(monthlyIncome, monthlyDebts, targetDti) ==
  LET thirds == monthlyIncome * targetDti * 25 - 3 * monthlyDebts * UnitsPerDollar
  IN  \* maxHousingPayment <= 0
      IF thirds < 0 \/ (thirds = 0 /\ ~ExceedsExactPercent(monthlyIncome, targetDti))
      THEN 0
      ELSE RoundDiv(PriceIteration(0, StartingGuess, thirds \div 3), PriceStep) * PriceStep

\* calculateMaxPriceForDti tabulated over the amounts the questionnaire resolves
\* to, so that the loop runs once per argument triple (@@ makes the table an
\* explicit function, evaluated once)
maxPriceTable ==
  [k \in {getIncomeAmount(t) : t \in IncomeAnswers}
         \X {getMonthlyDebtAmount(t) : t \in DebtAnswers} \X {36, 43} |->
     calculateMaxPriceForDti(k[1], k[2], k[3])] @@ <<>>

maxPriceForDti(monthlyIncome, monthlyDebts, targetDti) ==
  maxPriceTable[<<monthlyIncome, monthlyDebts, targetDti>>]

(***************************************************************************)
(* Program matcher.                                                        *)
(***************************************************************************)
\* creditScore || 650
scoreOrDefault(creditScore) ==
  IF creditScore = NoScore \/ creditScore = 0 THEN 650 ELSE creditScore

matchPrograms(creditScore, firstTimeBuyer, veteranStatus, income) ==
  LET score == scoreOrDefault(creditScore)
      va == IF isVeteranEligible(veteranStatus)
            THEN <<[name |-> "VA Loan", eligible |-> TRUE,
                    reason |-> "Military service",
                    benefit |-> "0% down payment, no PMI"]>>
            ELSE <<>>
      fha == IF score >= 580
             THEN <<[name |-> "FHA Loan", eligible |-> TRUE,
                     reason |-> IF score >= 580 THEN "Credit score qualifies"
                                ELSE "Need 580+ credit",
                     benefit |-> "3.5% down payment"]>>
             ELSE <<>>
      conventional == IF score >= 620
                      THEN <<[name |-> "Conventional Loan", eligible |-> TRUE,
                              reason |-> "Credit score qualifies",
                              benefit |-> "Competitive rates, 3-5% down"]>>
                      ELSE <<>>
      firstHome == IF firstTimeBuyer = True /\ score >= 660 /\ income < 141400
                   THEN <<[name |-> "Utah FirstHome", eligible |-> TRUE,
                           reason |-> "First-time buyer with qualifying credit and income",
                           benefit |-> "Up to 6% down payment assistance"]>>
                   ELSE <<>>
      homeAgain == IF score >= 660 /\ income < 141400
                   THEN <<[name |-> "Utah HomeAgain", eligible |-> TRUE,
                           reason |-> "Credit and income qualify",
                           benefit |-> "Down payment assistance available"]>>
                   ELSE <<>>
  IN  va \o fha \o conventional \o firstHome \o homeAgain

\* programDetails.filter(p => p.eligible).map(p => p.name)
eligibleNames(programDetails) ==
  LET eligible == SelectSeq(programDetails, LAMBDA p : p.eligible)
  IN  [i \in 1..Len(eligible) |-> eligible[i].name]

(***************************************************************************)
(* Down-payment-assistance eligibility.                                    *)
(***************************************************************************)
IncomeLimit == 141400

MinCreditScoreDpa == 660

MinCreditScore35Down == 580

MinCreditScore10Down == 500

checkDPAEligibility(creditScore, annualIncome, targetPrice, firstTimeBuyer, veteranStatus) ==
  LET score == scoreOrDefault(creditScore)
      isVeteran == isVeteranEligible(veteranStatus)
      firstHomeEligible == /\ firstTimeBuyer = True
                           /\ score >= MinCreditScoreDpa
                           /\ annualIncome <= IncomeLimit
      homeAgainEligible == score >= MinCreditScoreDpa /\ annualIncome <= IncomeLimit
      fhaEligible == score >= MinCreditScore10Down
      \* in tenths of a percent: 3.5 or 10
      fhaDownPercent == IF score >= MinCreditScore35Down THEN 35 ELSE 100
  IN  [firstHome |->
         [eligible |-> firstHomeEligible,
          reason |-> IF firstTimeBuyer # True THEN "First-time buyer status required"
                     ELSE IF score < MinCreditScoreDpa THEN "Requires 660+ credit"
                     ELSE IF annualIncome > IncomeLimit THEN "Income over $141,400 limit"
                     ELSE "You qualify!"],
       homeAgain |->
         [eligible |-> homeAgainEligible,
          reason |-> IF score < MinCreditScoreDpa THEN "Requires 660+ credit"
                     ELSE IF annualIncome > IncomeLimit THEN "Income over $141,400 limit"
                     ELSE "You qualify!"],
       fha |->
         [eligible |-> fhaEligible,
          reason |-> IF ~fhaEligible THEN "Requires 500+ credit" ELSE "down payment",
          downPercent |-> fhaDownPercent],
       va |->
         [eligible |-> isVeteran,
          reason |-> IF isVeteran THEN "Military service qualifies you"
                     ELSE "Requires military service"],
       anyEligible |-> firstHomeEligible \/ homeAgainEligible \/ fhaEligible \/ isVeteran,
       bestProgram |-> IF isVeteran THEN "VA Loan (0% down, no PMI)"
                       ELSE IF firstHomeEligible
                       THEN "Utah FirstHome (up to 6% down payment help)"
                       ELSE IF homeAgainEligible
                       THEN "Utah HomeAgain (up to 6% down payment help)"
                       ELSE IF fhaEligible THEN "FHA"
                       ELSE Null,
       totalPotentialAssistance |->
         IF firstHomeEligible \/ homeAgainEligible THEN (targetPrice * 6) \div 100 ELSE 0]

(***************************************************************************)
(* Path-forward calculations.                                              *)
(***************************************************************************)
\* monthlyIncome * (targetDti / 100) in U, from twelfths of a dollar
maxObligationsFor(monthlyIncome, targetDti) == (monthlyIncome * targetDti * 25) \div 3

\* monthly income in U, from twelfths of a dollar
incomeInUnits(monthlyIncome) == (monthlyIncome * 2500) \div 3

\* currentDebts in dollars, housingPayment in U; result in dollars
calculateDebtReductionForDti(monthlyIncome, currentDebts, housingPayment, targetDti) ==
  LET maxTotalObligations == maxObligationsFor(monthlyIncome, targetDti)
      currentTotal == housingPayment + currentDebts * UnitsPerDollar
      reduction == currentTotal - maxTotalObligations
  IN  Max(0, RoundDiv(reduction, UnitsPerDollar))

\* the income increase that merely covers the obligations, whatever the ceiling
incomeToCoverObligations(currentIncome, monthlyDebts, housingPayment, targetDti) ==
  Max(0, RoundDiv(housingPayment + monthlyDebts * UnitsPerDollar
                    - incomeInUnits(currentIncome), UnitsPerDollar))

calculateIncomeForDti(currentIncome, monthlyDebts, housingPayment, targetDti) ==
  LET totalObligations == housingPayment + monthlyDebts * UnitsPerDollar
      \* totalObligations / (targetDti / 100)
      requiredIncome == (totalObligations \div targetDti) * 100
                        + ((totalObligations % targetDti) * 100) \div targetDti
      increase == requiredIncome - incomeInUnits(currentIncome)
  IN  Max(0, RoundDiv(increase, UnitsPerDollar))

\* Math.round((housingPayment + monthlyDebts) / monthlyIncome * 100)
calculateCurrentDti(monthlyIncome, monthlyDebts, housingPayment) ==
  RoundDiv(3 * (housingPayment + monthlyDebts * UnitsPerDollar), 25 * monthlyIncome)

(***************************************************************************)
(* Primary blocker detector.  Each rule of the ordered tree is an operator *)
(* that builds the blocker the rule returns; detectPrimaryBlocker takes    *)
(* the first rule whose condition holds.  A blocker carries the type,      *)
(* severity and solutions of the source, and the values its texts quote.   *)
(***************************************************************************)
\* rule 1 offering a lower price and nothing else
lowerPriceOrNothing(monthlyIncome, monthlyDebts, targetPrice, housingPayment, currentDti) ==
  LET affordablePrice == maxPriceForDti(monthlyIncome, monthlyDebts, 43)
  IN  [type |-> "DTI",
       severity |-> IF currentDti > 57 THEN "critical" ELSE "significant",
       currentValue |-> currentDti,
       targetValue |-> "43% or less",
       solutions |->
         IF affordablePrice > 0 /\ affordablePrice < targetPrice
         THEN <<[type |-> "ADJUST_PRICE", actionLabel |-> "See homes in this range",
                 newPrice |-> affordablePrice,
                 monthlyPayment |->
                   RoundDiv(estimateMonthlyPayment(affordablePrice), UnitsPerDollar)]>>
         ELSE <<>>]

\* rule 1: currentDti > 50
severeDtiBlocker(monthlyIncome, monthlyDebts, targetPrice, housingPayment, currentDti) ==
  LET affordablePrice == maxPriceForDti(monthlyIncome, monthlyDebts, 43)
      lowerPrice ==
        IF affordablePrice > 0 /\ affordablePrice < targetPrice
        THEN <<[type |-> "ADJUST_PRICE", actionLabel |-> "See homes in this range",
                newPrice |-> affordablePrice,
                monthlyPayment |->
                  RoundDiv(estimateMonthlyPayment(affordablePrice), UnitsPerDollar)]>>
        ELSE <<>>
      debtReduction ==
        calculateDebtReductionForDti(monthlyIncome, monthlyDebts, housingPayment, 43)
      payDown ==
        IF debtReduction > 0 /\ debtReduction <= monthlyDebts
        THEN <<[type |-> "PAY_DOWN_DEBT", actionLabel |-> "See payoff strategies",
                timeline |-> IF debtReduction > 500 THEN "6-12 months" ELSE "3-6 months",
                debtReduction |-> debtReduction]>>
        ELSE <<>>
      incomeIncrease ==
        calculateIncomeForDti(monthlyIncome, monthlyDebts, housingPayment, 43)
      earnMore ==
        IF incomeIncrease > 0
        THEN <<[type |-> "INCREASE_INCOME", actionLabel |-> "Explore options",
                timeline |-> "3-6 months", incomeIncrease |-> incomeIncrease]>>
        ELSE <<>>
  IN  [type |-> "DTI",
       severity |-> IF currentDti > 57 THEN "critical" ELSE "significant",
       currentValue |-> currentDti,
       targetValue |-> "43% or less",
       solutions |-> lowerPrice \o payDown \o earnMore]

\* rule 2: 43 < currentDti <= 50
moderateDtiBlocker(dpaEligibility, monthlyIncome, monthlyDebts, targetPrice, currentDti) ==
  LET fhaNote ==
        IF dpaEligibility.fha.eligible
        THEN <<[type |-> "DPA_PROGRAMS", actionLabel |-> "Explore FHA options",
                description |-> "FHA loans allow up to 50% DTI with compensating factors"]>>
        ELSE <<>>
      comfortablePrice == maxPriceForDti(monthlyIncome, monthlyDebts, 36)
      lowerPrice ==
        \* comfortablePrice < targetPrice * 0.9
        IF comfortablePrice > 0 /\ comfortablePrice * 10 < targetPrice * 9
        THEN <<[type |-> "ADJUST_PRICE", actionLabel |-> "See comfortable range",
                newPrice |-> comfortablePrice,
                monthlyPayment |->
                  RoundDiv(estimateMonthlyPayment(comfortablePrice), UnitsPerDollar)]>>
        ELSE <<>>
  IN  [type |-> "DTI",
       severity |-> "minor",
       currentValue |-> currentDti,
       targetValue |-> "43% or less",
       solutions |-> fhaNote \o lowerPrice]

\* the down-payment-assistance solution of rules 3 and 4 when a Utah program applies
utahProgramSolution(dpaEligibility) ==
  IF dpaEligibility.firstHome.eligible
  THEN <<[type |-> "DPA_PROGRAMS", actionLabel |-> "Learn about FirstHome",
          description |-> "Utah FirstHome could provide"]>>
  ELSE IF dpaEligibility.homeAgain.eligible
  THEN <<[type |-> "DPA_PROGRAMS", actionLabel |-> "Learn about HomeAgain",
          description |-> "Utah HomeAgain could provide"]>>
  ELSE <<>>

\* rule 3: saved < minDownPayment; minDownPayment in mills, exceeded by the double
\* the source holds when exceeds is TRUE
savingsShortfallBlocker(dpaEligibility, creditScore, annualIncome, targetPrice, saved, minDownPayment, exceeds) ==
  LET shortfall == minDownPayment - saved * 1000            \* mills
      \* saved / 0.035, to the dollar
      affordableWithSavings == RoundDiv(saved * 1000, 35)
      lowerPrice ==
        \* affordableWithSavings >= 200000
        IF saved * 1000 >= 200000 * 35
        THEN <<[type |-> "ADJUST_PRICE", actionLabel |-> "See homes in range",
                newPrice |-> RoundDiv(saved * 1000, 35 * PriceStep) * PriceStep,
                monthlyPayment |->
                  RoundDiv(estimateMonthlyPayment(affordableWithSavings), UnitsPerDollar)]>>
        ELSE <<>>
      monthsToSave == MonthsAt500(shortfall, exceeds)
      saveMore == <<[type |-> "SAVE_MORE", actionLabel |-> "Create savings plan",
                     monthsToSave |-> monthsToSave]>>
      whyNoAssistance ==
        IF annualIncome > IncomeLimit
        THEN "Your income exceeds assistance limits ($141k)"
        ELSE IF creditScore # NoScore /\ creditScore # 0 /\ creditScore < 660
        THEN "Down payment assistance requires 660+ credit"
        ELSE "You may not qualify for Utah assistance programs"
      assistance ==
        IF dpaEligibility.firstHome.eligible \/ dpaEligibility.homeAgain.eligible
        THEN utahProgramSolution(dpaEligibility)
        ELSE IF /\ dpaEligibility.fha.eligible
                /\ ~dpaEligibility.firstHome.eligible
                /\ ~dpaEligibility.homeAgain.eligible
        THEN <<[type |-> "DPA_PROGRAMS", actionLabel |-> "Explore FHA options",
                description |-> whyNoAssistance,
                fhaDownPercent |-> dpaEligibility.fha.downPercent]>>
        ELSE <<>>
  IN  [type |-> "DOWN_PAYMENT",
       severity |-> IF shortfall > 20000 * 1000 THEN "significant" ELSE "minor",
       currentValue |-> saved,
       targetValue |-> "3.5% down",
       solutions |-> lowerPrice \o saveMore \o assistance]

\* rule 4: downPaymentPoints <= 7 and not veteran-eligible
thinDownPaymentBlocker(dpaEligibility, creditScore, annualIncome, targetPrice, saved, downPaymentPoints) ==
  LET \* comfortablePrice = saved / 0.05 = saved * 20
      comfortablePrice == saved * 20
      lowerPrice ==
        \* comfortablePrice >= 200000 && comfortablePrice < targetPrice * 0.9
        IF comfortablePrice >= 200000 /\ comfortablePrice * 10 < targetPrice * 9
        THEN <<[type |-> "ADJUST_PRICE", actionLabel |-> "See homes in range",
                newPrice |-> RoundDiv(comfortablePrice, PriceStep) * PriceStep,
                monthlyPayment |->
                  RoundDiv(estimateMonthlyPayment(comfortablePrice), UnitsPerDollar)]>>
        ELSE <<>>
      \* targetPrice * 0.05 - saved, in hundredths of a dollar
      additionalNeeded == targetPrice * 5 - saved * 100
      saveMore ==
        IF additionalNeeded > 0
        THEN <<[type |-> "SAVE_MORE", actionLabel |-> "Create savings plan",
                monthsToSave |-> CeilDiv(additionalNeeded, 500 * 100)]>>
        ELSE <<>>
      reasons ==
        (IF annualIncome > IncomeLimit THEN <<"income under $141k">> ELSE <<>>)
        \o (IF creditScore # NoScore /\ creditScore # 0 /\ creditScore < 660
            THEN <<"660+ credit">> ELSE <<>>)
      assistance ==
        IF dpaEligibility.firstHome.eligible \/ dpaEligibility.homeAgain.eligible
        THEN utahProgramSolution(dpaEligibility)
        ELSE IF Len(reasons) > 0
        THEN <<[type |-> "DPA_PROGRAMS", actionLabel |-> "See your options",
                description |-> "Utah down payment assistance programs require",
                reasons |-> reasons,
                impact |-> IF dpaEligibility.fha.eligible
                           THEN "FHA is available"
                           ELSE "Work on qualifying factors to unlock assistance"]>>
        ELSE <<>>
  IN  [type |-> "DOWN_PAYMENT",
       severity |-> IF downPaymentPoints <= 3 THEN "significant" ELSE "minor",
       currentValue |-> saved,
       targetValue |-> "5%+",
       solutions |-> lowerPrice \o saveMore \o assistance]

\* rule 5: creditScore known and < 620
poorCreditBlocker(dpaEligibility, creditScore, annualIncome) ==
  LET fhaToday ==
        IF dpaEligibility.fha.eligible /\ creditScore >= 580
        THEN <<[type |-> "DPA_PROGRAMS", actionLabel |-> "Explore FHA options",
                description |-> "you qualify for FHA loans today"]>>
        ELSE <<>>
      improve == <<[type |-> "IMPROVE_CREDIT", actionLabel |-> "See credit tips",
                    timeline |-> "3-6 months with focused effort",
                    impact |-> IF annualIncome <= IncomeLimit
                               THEN "Could mean down payment help"
                               ELSE "Better rates and more loan options"]>>
  IN  [type |-> "CREDIT",
       severity |-> IF creditScore < 580 THEN "critical" ELSE "significant",
       currentValue |-> creditScore,
       targetValue |-> "660+",
       solutions |-> fhaToday \o improve]

\* rule 6: creditScore known and in [620, 660)
fairCreditBlocker(creditScore, annualIncome) ==
  [type |-> "CREDIT",
   severity |-> "minor",
   currentValue |-> creditScore,
   targetValue |-> "660+",
   solutions |->
     <<[type |-> "DPA_PROGRAMS", actionLabel |-> "See your options",
        description |-> "You qualify for conventional loans at current rates"],
       [type |-> "IMPROVE_CREDIT", actionLabel |-> "Quick credit wins",
        timeline |-> "2-4 months",
        description |-> IF annualIncome <= IncomeLimit
                        THEN "Bumping to 660+ unlocks Utah Housing down payment assistance"
                        ELSE "Bumping to 660+ unlocks better rates"]>>]

detectPrimaryBlocker(creditScore, creditPoints, dtiPoints, downPaymentPoints, monthlyIncome, monthlyDebts, targetPrice, saved, veteranStatus, annualIncome, firstTimeBuyer) ==
  LET dpaEligibility == checkDPAEligibility(creditScore, annualIncome, targetPrice,
                                            firstTimeBuyer, veteranStatus)
      housingPayment == estimateMonthlyPayment(targetPrice)
      currentDti == calculateCurrentDti(monthlyIncome, monthlyDebts, housingPayment)
      isVeteran == isVeteranEligible(veteranStatus)
      \* mills
      minDownPayment == IF isVeteran THEN 0 ELSE targetPrice * 35
      exceeds == ~isVeteran /\ ExceedsExact35(targetPrice)
  IN  IF currentDti > 50
      THEN severeDtiBlocker(monthlyIncome, monthlyDebts, targetPrice, housingPayment,
                            currentDti)
      ELSE IF currentDti > 43 /\ currentDti <= 50
      THEN moderateDtiBlocker(dpaEligibility, monthlyIncome, monthlyDebts, targetPrice,
                              currentDti)
      ELSE IF saved * 1000 < minDownPayment \/ (saved * 1000 = minDownPayment /\ exceeds)
      THEN savingsShortfallBlocker(dpaEligibility, creditScore, annualIncome, targetPrice,
                                   saved, minDownPayment, exceeds)
      ELSE IF downPaymentPoints <= 7 /\ ~isVeteran
      THEN thinDownPaymentBlocker(dpaEligibility, creditScore, annualIncome, targetPrice,
                                  saved, downPaymentPoints)
      ELSE IF creditScore # NoScore /\ creditScore < 620
      THEN poorCreditBlocker(dpaEligibility, creditScore, annualIncome)
      ELSE IF creditScore # NoScore /\ creditScore >= 620 /\ creditScore < 660
      THEN fairCreditBlocker(creditScore, annualIncome)
      ELSE NullObject

(***************************************************************************)
(* Inverse range mapping.                                                  *)
(***************************************************************************)
getPriceRangeFromAmount(price) ==
  IF price < 400000 THEN "under-400k"
  ELSE IF price < 500000 THEN "400k-500k"
  ELSE IF price < 600000 THEN "500k-600k"
  ELSE IF price < 700000 THEN "600k-700k"
  ELSE IF price < 800000 THEN "700k-800k"
  ELSE IF price < 900000 THEN "800k-900k"
  ELSE IF price < 1000000 THEN "900k-1m"
  ELSE "1m-plus"

getCreditScoreRange(score) ==
  IF score = NoScore THEN Null
  ELSE IF score >= 740 THEN "740-plus"
  ELSE IF score >= 700 THEN "700-739"
  ELSE IF score >= 660 THEN "660-699"
  ELSE IF score >= 620 THEN "620-659"
  ELSE IF score >= 580 THEN "580-619"
  ELSE "below-580"

getIncomeRange(income) ==
  IF income >= 220000 THEN "220k-plus"
  ELSE IF income >= 180000 THEN "180k-220k"
  ELSE IF income >= 150000 THEN "150k-180k"
  ELSE IF income >= 100000 THEN "100k-150k"
  ELSE IF income >= 80000 THEN "80k-100k"
  ELSE IF income >= 60000 THEN "60k-80k"
  ELSE IF income >= 40000 THEN "40k-60k"
  ELSE "under-40k"

getPriceRange(price) == getPriceRangeFromAmount(price)

getDownPaymentRange(amount) ==
  IF amount >= 260000 THEN "260k-plus"
  ELSE IF amount >= 220000 THEN "220k-260k"
  ELSE IF amount >= 180000 THEN "180k-220k"
  ELSE IF amount >= 140000 THEN "140k-180k"
  ELSE IF amount >= 100000 THEN "100k-140k"
  ELSE IF amount >= 75000 THEN "75k-100k"
  ELSE IF amount >= 50000 THEN "50k-75k"
  ELSE IF amount >= 25000 THEN "25k-50k"
  ELSE IF amount >= 10000 THEN "10k-25k"
  ELSE "under-10k"

\* a bucketing that never answers 'none'
getMonthlyDebtRangeWithoutNone(debt) ==
  IF debt >= 3000 THEN "3000-plus"
  ELSE IF debt >= 2500 THEN "2500-3000"
  ELSE IF debt >= 2000 THEN "2000-2500"
  ELSE IF debt >= 1000 THEN "1000-2000"
  ELSE IF debt >= 500 THEN "500-1000"
  ELSE IF debt >= 250 THEN "250-500"
  ELSE "under-250"

getMonthlyDebtRange(debt) ==
  IF debt >= 3000 THEN "3000-plus"
  ELSE IF debt >= 2500 THEN "2500-3000"
  ELSE IF debt >= 2000 THEN "2000-2500"
  ELSE IF debt >= 1000 THEN "1000-2000"
  ELSE IF debt >= 500 THEN "500-1000"
  ELSE IF debt >= 250 THEN "250-500"
  ELSE IF debt > 0 THEN "under-250"
  ELSE "none"

(***************************************************************************)
(* Sweet spot and path to goal.                                            *)
(***************************************************************************)
\* a total that is not clamped
Unclamped(x) == x

\* Math.max(0, Math.min(100, x))
Clamp100(x) == Max(0, Min(100, x))

\* what calculateScoreInternal returns for a total
scoreStatusTimeline(total) ==
  [total |-> total, status |-> getStatus(total), timeline |-> getTimeline(total)]

calculateScoreInternal(in) ==
  LET creditScore == getCreditScore(in.creditScoreRange)
      income == getIncomeAmount(in.annualIncome)
      targetPrice == getPriceAmount(in.priceRange)
      saved == getDownPaymentAmount(in.downPayment)
      monthlyDebts == getMonthlyDebtAmount(in.monthlyDebts)
      monthlyIncome == income                          \* twelfths of a dollar
  IN  scoreStatusTimeline(Clamp100(calculateCreditPoints(creditScore)
                    + calculateDtiPoints(monthlyIncome, targetPrice, monthlyDebts)
                    + calculateDownPaymentPoints(saved, targetPrice, in.veteranStatus)
                    + calculateEmploymentPoints
                    + calculateReservesPoints(saved, targetPrice)
                    + calculateBonusPoints(in.firstTimeBuyer, in.veteranStatus)))

\* a recommendation that is always the most a lender approves
stretchPriceAlways(targetPrice, comfortablePrice, stretchPrice) == stretchPrice

\* a recommendation that never goes beyond the comfortable price
comfortablePriceWhenOver(targetPrice, comfortablePrice, stretchPrice) ==
  IF targetPrice <= comfortablePrice THEN targetPrice ELSE comfortablePrice

\* the price the sweet spot recommends, before rounding
recommendedPriceFor(targetPrice, comfortablePrice, stretchPrice) ==
  IF targetPrice <= comfortablePrice THEN targetPrice
  ELSE IF targetPrice <= stretchPrice THEN comfortablePrice
  ELSE stretchPrice

\* the object calculateSweetSpot returns, once the recommended price, its score
\* and its payment are known
sweetSpotAtPrice(monthlyIncome, monthlyDebts, targetPrice, in, whyThisWorks, recommendedPrice, scoreAtRecommended, payment) ==
  [recommendedPrice |-> recommendedPrice,
   scoreAtPrice |-> scoreAtRecommended.total,
   statusAtPrice |-> scoreAtRecommended.status,
   timelineAtPrice |-> scoreAtRecommended.timeline,
   monthlyPayment |-> RoundDiv(payment, UnitsPerDollar),
   downPaymentNeeded |-> RoundDiv(recommendedPrice * 35, 1000),
   dtiAtPrice |-> calculateCurrentDti(monthlyIncome, monthlyDebts, payment),
   whyThisWorks |-> whyThisWorks,
   comparedToTarget |->
     [priceDifference |-> targetPrice - recommendedPrice,
      scoreDifference |-> scoreAtRecommended.total - calculateScoreInternal(in).total,
      paymentDifference |->
        RoundDiv(estimateMonthlyPayment(targetPrice) - payment, UnitsPerDollar)]]

\* calculateSweetSpot once the comfortable (36%) and stretch (43%) prices are known
sweetSpotBetween(monthlyIncome, monthlyDebts, targetPrice, in, comfortablePrice, stretchPrice) ==
  LET whyThisWorks ==
        IF targetPrice <= comfortablePrice
        THEN "Your target price fits comfortably within your budget with room to spare."
        ELSE IF targetPrice <= stretchPrice
        THEN "This price gives you financial breathing room while still getting a great home."
        ELSE "This is the maximum lenders will typically approve. It keeps you within guidelines."
      recommendedPrice ==
        RoundDiv(recommendedPriceFor(targetPrice, comfortablePrice, stretchPrice), PriceStep)
          * PriceStep
  IN  sweetSpotAtPrice(monthlyIncome, monthlyDebts, targetPrice, in, whyThisWorks,
                       recommendedPrice,
                       calculateScoreInternal(
                         [in EXCEPT !.priceRange = getPriceRangeFromAmount(recommendedPrice)]),
                       estimateMonthlyPayment(recommendedPrice))

calculateSweetSpot(monthlyIncome, monthlyDebts, saved, targetPrice, in) ==
  sweetSpotBetween(monthlyIncome, monthlyDebts, targetPrice, in,
                   maxPriceForDti(monthlyIncome, monthlyDebts, 36),
                   maxPriceForDti(monthlyIncome, monthlyDebts, 43))

\* the months a required change is estimated to take
changeMonths(change) ==
  IF change.type = "debt_reduction" THEN CeilDiv(change.amount * 12, 1000)
  ELSE IF change.type = "savings_increase"
  THEN MonthsAt500(change.amount, change.exceeds)
  ELSE IF change.type = "income_increase" THEN 6
  ELSE 0

RECURSIVE maxChangeMonths(_)
maxChangeMonths(changes) ==
  IF changes = <<>> THEN 0
  ELSE Max(changeMonths(Head(changes)), maxChangeMonths(Tail(changes)))

\* a path withheld only when the target is below the sweet spot
onlyWhenTargetLower(targetPrice, recommendedPrice) == targetPrice < recommendedPrice

\* the two early returns of calculatePathToGoal
pathNotNeeded(targetPrice, recommendedPrice) ==
  \/ Abs(targetPrice - recommendedPrice) < 10000
  \/ targetPrice < recommendedPrice

\* the requiredChanges calculatePathToGoal collects, given the payment at the
\* target price: a savings_increase amount is in mills (exceeded by
\* the double the source holds when its exceeds is TRUE), the other amounts in
\* dollars
requiredChangesAt(monthlyIncome, monthlyDebts, saved, targetPrice, housingPayment) ==
  LET currentDti == calculateCurrentDti(monthlyIncome, monthlyDebts, housingPayment)
      debtReduction ==
        calculateDebtReductionForDti(monthlyIncome, monthlyDebts, housingPayment, 43)
      incomeIncrease ==
        calculateIncomeForDti(monthlyIncome, monthlyDebts, housingPayment, 43)
      optionA == IF currentDti > 43 /\ debtReduction > 0 /\ debtReduction <= monthlyDebts
                 THEN <<[type |-> "debt_reduction", amount |-> debtReduction]>>
                 ELSE <<>>
      optionB == IF currentDti > 43 /\ incomeIncrease > 0
                 THEN <<[type |-> "income_increase", amount |-> incomeIncrease]>>
                 ELSE <<>>
      downPaymentNeeded == targetPrice * 35               \* mills
      exceeds == ExceedsExact35(targetPrice)
      savings == IF \/ saved * 1000 < downPaymentNeeded
                    \/ (saved * 1000 = downPaymentNeeded /\ exceeds)
                 THEN <<[type |-> "savings_increase",
                         amount |-> downPaymentNeeded - saved * 1000,
                         exceeds |-> exceeds]>>
                 ELSE <<>>
  IN  optionA \o optionB \o savings

\* the tail of calculatePathToGoal: null without changes, else the path with
\* its timeline
pathWithChanges(targetPrice, currentScore, requiredChanges, estimatedMonths) ==
  IF Len(requiredChanges) = 0 THEN NullObject
  ELSE [targetPrice |-> targetPrice,
        currentScore |-> currentScore,
        requiredChanges |-> requiredChanges,
        estimatedTimeline |-> IF estimatedMonths <= 3 THEN "1-3 months"
                              ELSE IF estimatedMonths <= 6 THEN "3-6 months"
                              ELSE IF estimatedMonths <= 12 THEN "6-12 months"
                              ELSE "12+ months"]

\* Math.max over the months of the changes
pathThrough(targetPrice, currentScore, requiredChanges) ==
  pathWithChanges(targetPrice, currentScore, requiredChanges,
                  maxChangeMonths(requiredChanges))

calculatePathToGoal(monthlyIncome, monthlyDebts, saved, targetPrice, sweetSpot, currentScore) ==
  IF pathNotNeeded(targetPrice, sweetSpot.recommendedPrice) THEN NullObject
  ELSE pathThrough(targetPrice, currentScore,
                   requiredChangesAt(monthlyIncome, monthlyDebts, saved, targetPrice,
                                     estimateMonthlyPayment(targetPrice)))

(***************************************************************************)
(* Gaps and recommendations.  A gap's "current" is the credit score (or   *)
(* "Unknown"), the saved percentage in tenths of a percent, or "High".     *)
(***************************************************************************)
RECURSIVE maxPotentialGain(_)
maxPotentialGain(gaps) ==
  IF gaps = <<>> THEN 0
  ELSE Max(Head(gaps).potentialGain, maxPotentialGain(Tail(gaps)))

\* Array.prototype.sort with (a, b) => b.potentialGain - a.potentialGain: stable,
\* descending
\* gaps left in the order they were pushed
leftAsPushed(gaps) == gaps

RECURSIVE sortByPotentialGain(_)
sortByPotentialGain(gaps) ==
  IF gaps = <<>> THEN <<>>
  ELSE LET best == maxPotentialGain(gaps)
           k == CHOOSE i \in 1..Len(gaps) :
                  /\ gaps[i].potentialGain = best
                  /\ \A j \in 1..(i - 1) : gaps[j].potentialGain # best
       IN  <<gaps[k]>> \o sortByPotentialGain(SubSeq(gaps, 1, k - 1)
                                             \o SubSeq(gaps, k + 1, Len(gaps)))

identifyGaps(creditScore, creditPoints, downPaymentPoints, dtiPoints, saved, targetPrice) ==
  LET credit ==
        IF creditPoints < 20
        THEN <<[factor |-> "credit",
                severity |-> IF creditPoints < 10 THEN "high" ELSE "medium",
                current |-> IF creditScore # NoScore /\ creditScore # 0
                            THEN creditScore ELSE "Unknown",
                target |-> "680+",
                pointsLost |-> 30 - creditPoints,
                potentialGain |-> Min(10, 30 - creditPoints)]>>
        ELSE <<>>
      downPayment ==
        IF downPaymentPoints < 10
        THEN <<[factor |-> "down_payment",
                severity |-> IF downPaymentPoints < 5 THEN "high" ELSE "medium",
                current |-> RoundDiv(saved * 1000, targetPrice),
                target |-> "5%+",
                pointsLost |-> 20 - downPaymentPoints,
                potentialGain |-> Min(7, 20 - downPaymentPoints)]>>
        ELSE <<>>
      dti ==
        IF dtiPoints < 14
        THEN <<[factor |-> "dti",
                severity |-> IF dtiPoints < 5 THEN "high" ELSE "medium",
                current |-> "High",
                target |-> "Under 43%",
                pointsLost |-> 25 - dtiPoints,
                potentialGain |-> Min(10, 25 - dtiPoints)]>>
        ELSE <<>>
  IN  sortByPotentialGain(credit \o downPayment \o dti)

recommendationCategory(factor) ==
  IF factor = "credit" THEN "credit"
  ELSE IF factor = "down_payment" THEN "savings"
  ELSE IF factor = "dti" THEN "debt"
  ELSE "general"

generateRecommendations(gaps) ==
  [index \in 1..Len(gaps) |->
     [priority |-> index,
      category |-> recommendationCategory(gaps[index].factor),
      impact |-> gaps[index].potentialGain]]

(***************************************************************************)
(* Main scoring function.                                                  *)
(***************************************************************************)
\* the object calculateScore returns, from the parsed values, the breakdown
\* and the sweet spot
scoreResult(in, parsed, breakdown, total, sweetSpot, gaps, programDetails) ==
  [total |-> total,
   status |-> getStatus(total),
   timeline |-> getTimeline(total),
   color |-> getColor(getStatus(total)),
   breakdown |-> breakdown,
   programs |-> eligibleNames(programDetails),
   programDetails |-> programDetails,
   gaps |-> gaps,
   recommendations |-> generateRecommendations(gaps),
   primaryBlocker |->
     detectPrimaryBlocker(parsed.creditScore, breakdown.credit, breakdown.dti,
                          breakdown.downPayment, parsed.monthlyIncome,
                          parsed.monthlyDebts, parsed.targetPrice, parsed.savedAmount,
                          in.veteranStatus, parsed.annualIncome, in.firstTimeBuyer),
   sweetSpot |-> sweetSpot,
   pathToGoal |-> calculatePathToGoal(parsed.monthlyIncome, parsed.monthlyDebts,
                                      parsed.savedAmount, parsed.targetPrice,
                                      sweetSpot, total),
   parsedValues |->
     [creditScore |-> parsed.creditScore, monthlyIncome |-> parsed.monthlyIncome,
      annualIncome |-> parsed.annualIncome, monthlyDebts |-> parsed.monthlyDebts,
      targetPrice |-> parsed.targetPrice, savedAmount |-> parsed.savedAmount,
      currentDti |-> calculateCurrentDti(parsed.monthlyIncome, parsed.monthlyDebts,
                                         estimateMonthlyPayment(parsed.targetPrice))]]

\* calculateScore from the parsed values and the points of each factor
scoreFromBreakdown(in, parsed, breakdown) ==
  scoreResult(in, parsed, breakdown,
              Clamp100(breakdown.credit + breakdown.dti + breakdown.downPayment
                       + breakdown.employment + breakdown.reserves
                       + breakdown.bonus - breakdown.penalty),
              calculateSweetSpot(parsed.monthlyIncome, parsed.monthlyDebts,
                                 parsed.savedAmount, parsed.targetPrice, in),
              identifyGaps(parsed.creditScore, breakdown.credit, breakdown.downPayment,
                           breakdown.dti, parsed.savedAmount, parsed.targetPrice),
              matchPrograms(parsed.creditScore, in.firstTimeBuyer, in.veteranStatus,
                            parsed.annualIncome))

\* calculateScore from the parsed values
scoreFromParsed(in, parsed) ==
  scoreFromBreakdown(in, parsed,
    [credit |-> calculateCreditPoints(parsed.creditScore),
     dti |-> calculateDtiPoints(parsed.monthlyIncome, parsed.targetPrice,
                                parsed.monthlyDebts),
     downPayment |-> calculateDownPaymentPoints(parsed.savedAmount, parsed.targetPrice,
                                                in.veteranStatus),
     employment |-> calculateEmploymentPoints,
     reserves |-> calculateReservesPoints(parsed.savedAmount, parsed.targetPrice),
     bonus |-> calculateBonusPoints(in.firstTimeBuyer, in.veteranStatus),
     penalty |-> 0])

\* monthlyIncome is kept in twelfths of a dollar, so it equals annualIncome in
\* dollars
calculateScore(in) ==
  scoreFromParsed(in,
    [creditScore |-> getCreditScore(in.creditScoreRange),
     monthlyIncome |-> getIncomeAmount(in.annualIncome),
     annualIncome |-> getIncomeAmount(in.annualIncome),
     monthlyDebts |-> getMonthlyDebtAmount(in.monthlyDebts),
     targetPrice |-> getPriceAmount(in.priceRange),
     savedAmount |-> getDownPaymentAmount(in.downPayment)])

(***************************************************************************)
(* calculateScore as a state machine: a caller holds an input and calls    *)
(* the function once.                                                      *)
(***************************************************************************)
Init ==
  /\ pc = "ready"
  /\ input \in ScoreInputs
  /\ result = NullObject
  /\ args = NullObject
  /\ ret = NullObject

CalculateScore ==
  /\ pc = "ready"
  /\ result' = calculateScore(input)
  /\ pc' = "done"
  /\ UNCHANGED <<input, args, ret>>

Next == CalculateScore

Spec == Init /\ [][Next]_vars

(***************************************************************************)
(* calculateMaxPriceForDti called on its own, as the exported function:    *)
(* monthly income and debts in whole dollars over a grid, and the          *)
(* ceilings lenders quote.                                                 *)
(***************************************************************************)
IncomeSteps == 30

DebtSteps == 30

DtiCeilings == {0, 28, 36, 43, 50}

InverterArgs ==
  [monthlyIncome : {500 * k : k \in 0..IncomeSteps},
   monthlyDebts : {100 * k : k \in 0..DebtSteps},
   targetDti : DtiCeilings]

InverterInit ==
  /\ pc = "ready"
  /\ args \in InverterArgs
  /\ input = NullObject
  /\ result = NullObject
  /\ ret = NullObject

CalculateMaxPriceForDti ==
  /\ pc = "ready"
  /\ ret' = [price |-> calculateMaxPriceForDti(12 * args.monthlyIncome,
                                               args.monthlyDebts, args.targetDti)]
  /\ pc' = "done"
  /\ UNCHANGED <<input, result, args>>

InverterNext == CalculateMaxPriceForDti

InverterSpec == InverterInit /\ [][InverterNext]_vars

(***************************************************************************)
(* The range tables, forward and inverse: a token is resolved to its       *)
(* midpoint and the midpoint bucketed back; a price is bucketed, the       *)
(* bucket resolved, and the midpoint bucketed again.                       *)
(***************************************************************************)
Dimensions == {"credit", "income", "price", "downPayment", "monthlyDebt"}

tokensOf(dimension) ==
  CASE dimension = "credit" -> Range(CreditTokens)
    [] dimension = "income" -> Range(IncomeTokens)
    [] dimension = "price" -> Range(PriceTokens)
    [] dimension = "downPayment" -> Range(DownPaymentTokens)
    [] dimension = "monthlyDebt" -> Range(DebtTokens)

resolve(dimension, token) ==
  CASE dimension = "credit" -> getCreditScore(token)
    [] dimension = "income" -> getIncomeAmount(token)
    [] dimension = "price" -> getPriceAmount(token)
    [] dimension = "downPayment" -> getDownPaymentAmount(token)
    [] dimension = "monthlyDebt" -> getMonthlyDebtAmount(token)

bucket(dimension, amount) ==
  CASE dimension = "credit" -> getCreditScoreRange(amount)
    [] dimension = "income" -> getIncomeRange(amount)
    [] dimension = "price" -> getPriceRange(amount)
    [] dimension = "downPayment" -> getDownPaymentRange(amount)
    [] dimension = "monthlyDebt" -> getMonthlyDebtRange(amount)

PriceSteps == 60

ResolverArgs ==
  {[dimension |-> d, token |-> t, price |-> 0] : d \in Dimensions, t \in {Null}}
  \cup UNION {{[dimension |-> d, token |-> t, price |-> 0] : t \in tokensOf(d)} :
              d \in Dimensions}
  \cup {[dimension |-> "price", token |-> Null, price |-> 25000 * k] : k \in 1..PriceSteps}

ResolverInit ==
  /\ pc = "ready"
  /\ args \in ResolverArgs
  /\ input = NullObject
  /\ result = NullObject
  /\ ret = NullObject

\* a token, resolved and bucketed back
RoundTripToken ==
  /\ pc = "ready"
  /\ args.price = 0
  /\ ret' = [amount |-> resolve(args.dimension, args.token),
             range |-> bucket(args.dimension, resolve(args.dimension, args.token))]
  /\ pc' = "done"
  /\ UNCHANGED <<input, result, args>>

\* a price, bucketed, resolved and bucketed back
RoundTripPrice ==
  /\ pc = "ready"
  /\ args.price > 0
  /\ LET first == getPriceRangeFromAmount(args.price)
     IN  ret' = [amount |-> getPriceAmount(first),
                 range |-> getPriceRangeFromAmount(getPriceAmount(first))]
  /\ pc' = "done"
  /\ UNCHANGED <<input, result, args>>

ResolverNext == RoundTripToken \/ RoundTripPrice

ResolverSpec == ResolverInit /\ [][ResolverNext]_vars

(***************************************************************************)
(* Properties of calculateScore (specification Spec).                      *)
(***************************************************************************)
\* C1: for every input (tokens defined, absent or unrecognised), the total lies
\* in [0, 100] and equals credit + dti + downPayment + employment + reserves
\* + bonus - penalty of the breakdown, clamped to [0, 100].
C1_TotalIsClampedSum ==
  pc = "done" =>
    LET b == result.breakdown
        sum == b.credit + b.dti + b.downPayment + b.employment + b.reserves
               + b.bonus - b.penalty
    IN  /\ result.total \in 0..100
        /\ result.total = (IF sum < 0 THEN 0 ELSE IF sum > 100 THEN 100 ELSE sum)

\* a result whose sum passes 100 and is clamped, from an input with an
\* unrecognised monthly-debts token
C1_Witness ==
  /\ pc = "done"
  /\ input.monthlyDebts = Unrecognised
  /\ LET b == result.breakdown
     IN  b.credit + b.dti + b.downPayment + b.employment + b.reserves + b.bonus > 100
  /\ result.total = 100

\* C2: for every input, the sweet spot's recommended price is at most the
\* resolved target price, so the price difference is never negative.
C2_RecommendedAtMostTarget ==
  pc = "done" =>
    /\ result.sweetSpot.recommendedPrice <= result.parsedValues.targetPrice
    /\ result.sweetSpot.comparedToTarget.priceDifference >= 0

\* the target passes the comfortable price and a lower price is recommended
C2_Witness ==
  /\ pc = "done"
  /\ result.sweetSpot.recommendedPrice > 0
  /\ result.sweetSpot.recommendedPrice < result.parsedValues.targetPrice

\* C3: for every input, pathToGoal is null whenever the target is within 10000 of
\* the recommended price or below it, and a pathToGoal that is not null lists at
\* least one required change.
C3_PathToGoalNullity ==
  pc = "done" =>
    LET targetPrice == result.parsedValues.targetPrice
        recommendedPrice == result.sweetSpot.recommendedPrice
    IN  /\ (\/ Abs(targetPrice - recommendedPrice) < 10000
            \/ targetPrice < recommendedPrice) => result.pathToGoal = NullObject
        /\ result.pathToGoal # NullObject => Len(result.pathToGoal.requiredChanges) > 0

\* the target is the recommended price, the savings fall short of 3.5% down, and
\* no path is given
C3_Witness ==
  /\ pc = "done"
  /\ result.parsedValues.targetPrice = result.sweetSpot.recommendedPrice
  /\ result.parsedValues.savedAmount * 1000 < result.parsedValues.targetPrice * 35
  /\ result.pathToGoal = NullObject

\* C4: for every resolved profile the primary blocker is the result of the first
\* matching rule of the ordered tree, with DTI the unrounded ratio
\* (payment at the target price + monthly debts) / monthly income * 100:
\* (1) DTI > 50: DTI, critical if DTI > 57, else significant; (2) 43 < DTI <= 50:
\* DTI, minor; (3) saved below the minimum down payment (0 for a veteran, else
\* 3.5% of the target): DOWN_PAYMENT, significant if the shortfall passes 20000,
\* else minor; (4) down-payment points <= 7 and no veteran: DOWN_PAYMENT;
\* (5) known credit < 620: CREDIT, critical below 580, else significant;
\* (6) known credit in [620, 660): CREDIT, minor; (7) otherwise null.
C4_BlockerFollowsUnroundedDti ==
  pc = "done" =>
    LET v == result.parsedValues
        obligations == estimateMonthlyPayment(v.targetPrice)
                       + v.monthlyDebts * UnitsPerDollar
        DtiOver(t) == 3 * obligations > 25 * t * v.monthlyIncome
        veteran == input.veteranStatus \in {"active", "veteran", "guard-reserve", "spouse"}
        minimum == IF veteran THEN 0 ELSE v.targetPrice * 35        \* mills
        shortfall == minimum - v.savedAmount * 1000
        known == v.creditScore # NoScore
        expected ==
          IF DtiOver(50)
          THEN <<"DTI", IF DtiOver(57) THEN "critical" ELSE "significant">>
          ELSE IF DtiOver(43) THEN <<"DTI", "minor">>
          ELSE IF shortfall > 0
          THEN <<"DOWN_PAYMENT",
                 IF shortfall > 20000 * 1000 THEN "significant" ELSE "minor">>
          ELSE IF result.breakdown.downPayment <= 7 /\ ~veteran
          THEN <<"DOWN_PAYMENT", "any">>
          ELSE IF known /\ v.creditScore < 620
          THEN <<"CREDIT", IF v.creditScore < 580 THEN "critical" ELSE "significant">>
          ELSE IF known /\ v.creditScore >= 620 /\ v.creditScore < 660
          THEN <<"CREDIT", "minor">>
          ELSE <<"none", "none">>
    IN  IF expected[1] = "none" THEN result.primaryBlocker = NullObject
        ELSE /\ result.primaryBlocker # NullObject
             /\ result.primaryBlocker.type = expected[1]
             /\ expected[2] \in {"any", result.primaryBlocker.severity}

\* C7: for every input whose veteranStatus is active, veteran, guard-reserve or
\* spouse the down-payment points are 15 whatever was saved and 'VA Loan' is
\* among the programs; for any other veteranStatus, null included, 'VA Loan' is
\* not among the programs.
C7_VeteranDownPaymentAndVa ==
  pc = "done" =>
    IF input.veteranStatus \in {"active", "veteran", "guard-reserve", "spouse"}
    THEN /\ result.breakdown.downPayment = 15
         /\ "VA Loan" \in Range(result.programs)
    ELSE "VA Loan" \notin Range(result.programs)

\* a reservist with under 10000 saved
C7_Witness ==
  /\ pc = "done"
  /\ input.veteranStatus = "guard-reserve"
  /\ input.downPayment = "under-10k"
  /\ result.breakdown.downPayment = 15
  /\ "VA Loan" \in Range(result.programs)

\* C8: with every other answer held fixed, the DTI points do not increase as the
\* monthly-debts answer moves to a higher band (none < under-250 < 250-500 <
\* 500-1000 < 1000-2000 < 2000-2500 < 2500-3000 < 3000-plus).
C8_DtiPointsNonIncreasingInDebts ==
  pc = "done" =>
    \A i, j \in 1..Len(DebtTokens) :
      (i < j /\ input.monthlyDebts = DebtTokens[i]) =>
        calculateDtiPoints(getIncomeAmount(input.annualIncome),
                           getPriceAmount(input.priceRange),
                           getMonthlyDebtAmount(DebtTokens[j]))
          <= result.breakdown.dti

\* the lowest band scores points and the highest band scores fewer
C8_Witness ==
  /\ pc = "done"
  /\ input.monthlyDebts = "none"
  /\ result.breakdown.dti > 0
  /\ calculateDtiPoints(getIncomeAmount(input.annualIncome),
                        getPriceAmount(input.priceRange),
                        getMonthlyDebtAmount("3000-plus")) < result.breakdown.dti

\* the worked example: income 100k-150k, price 500k-600k, 50k-75k saved, debts
\* 500-1000, not a first-time buyer, no veteran status, credit unknown
ExampleInput ==
  [creditScoreRange |-> Null, annualIncome |-> "100k-150k", priceRange |-> "500k-600k",
   downPayment |-> "50k-75k", monthlyDebts |-> "500-1000", firstTimeBuyer |-> False,
   veteranStatus |-> Null]

\* C9 as stated: the worked example yields credit 15, dti 14, downPayment 14,
\* employment 12, reserves 10, bonus 0, hence total 65, GETTING_CLOSE, 3-6 months.
C9_ExampleAsStated ==
  (pc = "done" /\ input = ExampleInput) =>
    /\ result.breakdown.credit = 15
    /\ result.breakdown.dti = 14
    /\ result.breakdown.downPayment = 14
    /\ result.breakdown.employment = 12
    /\ result.breakdown.reserves = 10
    /\ result.breakdown.bonus = 0
    /\ result.total = 65
    /\ result.status = "GETTING_CLOSE"
    /\ result.timeline = "3-6 months"

\* C9: the worked example yields credit 15, dti 10 (the payment at 550000 is
\* 4185.95 and the DTI 47.4%), downPayment 14, employment 12, reserves 10,
\* bonus 0, hence total 61, GETTING_CLOSE, 3-6 months.
C9_ExampleAsComputed ==
  (pc = "done" /\ input = ExampleInput) =>
    /\ result.breakdown.credit = 15
    /\ result.breakdown.dti = 10
    /\ result.breakdown.downPayment = 14
    /\ result.breakdown.employment = 12
    /\ result.breakdown.reserves = 10
    /\ result.breakdown.bonus = 0
    /\ result.total = 61
    /\ result.status = "GETTING_CLOSE"
    /\ result.timeline = "3-6 months"

\* the worked example, scored
C9_Witness ==
  /\ pc = "done"
  /\ input = ExampleInput
  /\ result.parsedValues.currentDti = 47

(***************************************************************************)
(* Properties of calculateMaxPriceForDti (specification InverterSpec).     *)
(***************************************************************************)
\* the payment at the returned price plus the debts, less income * ceiling / 100,
\* in U
ObligationsOverCeiling ==
  estimateMonthlyPayment(ret.price) + args.monthlyDebts * UnitsPerDollar
  - args.monthlyIncome * args.targetDti * 100

InClaimedRange ==
  /\ args.monthlyIncome >= 2000
  /\ args.monthlyIncome <= 15000
  /\ args.monthlyDebts >= 0
  /\ args.monthlyDebts <= 3000
  /\ args.targetDti > 0

\* |DTI at the returned price - ceiling| <= 0.5, the DTI being
\* (payment + debts) / income * 100
WithinHalfPoint ==
  Abs(ObligationsOverCeiling) <= 50 * args.monthlyIncome * (UnitsPerDollar \div 100)

C6_ZeroOrMultipleOf5000 ==
  pc = "done" =>
    /\ \/ ret.price = 0
       \/ (ret.price % 5000 = 0 /\ ret.price >= 100000 /\ ret.price <= 2000000)
    /\ ret.price = 0 <=> args.monthlyIncome * args.targetDti <= 100 * args.monthlyDebts

(***************************************************************************)
(* Properties of the range tables (specification ResolverSpec).            *)
(***************************************************************************)
\* C10: in each of the five dimensions, bucketing the midpoint of a token of the
\* forward table gives the token back; and for a price P, the midpoint of P's
\* range buckets back to P's range.
C10_BucketOfMidpointIsToken ==
  pc = "done" =>
    IF args.price = 0
    THEN args.token \in tokensOf(args.dimension) => ret.range = args.token
    ELSE ret.range = getPriceRangeFromAmount(args.price)

\* the debt token 'none', whose midpoint is 0, comes back
C10_Witness ==
  /\ pc = "done"
  /\ args.dimension = "monthlyDebt"
  /\ args.token = "none"
  /\ ret.amount = 0
  /\ ret.range = "none"

(***************************************************************************)
(* matchPrograms called on its own: credit scores on both sides of each    *)
(* threshold, and annual incomes on both sides of the income limit.        *)
(***************************************************************************)
MatcherArgs ==
  [creditScore : {NoScore, 550, 579, 580, 600, 619, 620, 640, 659, 660, 680, 760},
   firstTimeBuyer : FirstTimeBuyerAnswers,
   veteranStatus : VeteranAnswers,
   income : {getIncomeAmount(t) : t \in IncomeAnswers} \cup {141399, 141400, 141401}]

MatcherInit ==
  /\ pc = "ready"
  /\ args \in MatcherArgs
  /\ input = NullObject
  /\ result = NullObject
  /\ ret = NullObject

MatchPrograms ==
  /\ pc = "ready"
  /\ ret' = [programDetails |-> matchPrograms(args.creditScore, args.firstTimeBuyer,
                                              args.veteranStatus, args.income)]
  /\ pc' = "done"
  /\ UNCHANGED <<input, result, args>>

MatcherNext == MatchPrograms

MatcherSpec == MatcherInit /\ [][MatcherNext]_vars

\* the eligible programs as the catalog rules give them, in catalog order
CatalogPrograms(creditScore, firstTimeBuyer, veteranStatus, income) ==
  LET credit == IF creditScore = NoScore THEN 650 ELSE creditScore
      catalog ==
        <<[name |-> "VA Loan", eligible |-> veteranStatus \in VeteranStatuses],
          [name |-> "FHA Loan", eligible |-> credit >= 580],
          [name |-> "Conventional Loan", eligible |-> credit >= 620],
          [name |-> "Utah FirstHome",
           eligible |-> firstTimeBuyer = True /\ credit >= 660 /\ income <= 141400],
          [name |-> "Utah HomeAgain", eligible |-> credit >= 660 /\ income <= 141400]>>
      chosen == SelectSeq(catalog, LAMBDA p : p.eligible)
  IN  [i \in 1..Len(chosen) |-> chosen[i].name]

CatalogNames ==
  <<"VA Loan", "FHA Loan", "Conventional Loan", "Utah FirstHome", "Utah HomeAgain">>

\* C12: programDetails holds one record for each of the five catalog programs,
\* the ineligible ones with eligible = FALSE, and programs lists the names of
\* the records whose eligible is TRUE.
C12_OneRecordPerCatalogProgram ==
  pc = "done" =>
    /\ Len(result.programDetails) = Len(CatalogNames)
    /\ \A n \in Range(CatalogNames) :
         \E i \in 1..Len(result.programDetails) : result.programDetails[i].name = n
    /\ \A i \in 1..Len(result.programDetails) :
         result.programDetails[i].eligible \in BOOLEAN
    /\ result.programs
         = [i \in 1..Len(SelectSeq(result.programDetails, LAMBDA p : p.eligible)) |->
              SelectSeq(result.programDetails, LAMBDA p : p.eligible)[i].name]

\* the tiers in ascending order, the totals at which a tier begins, and the
\* timeline and color each tier carries
TierOrder ==
  <<"JUST_EXPLORING", "EARLY_STAGE", "BUILDING", "GETTING_CLOSE", "ALMOST_READY",
    "READY_NOW">>

TierSteps == {25, 45, 60, 75, 85}

TierTimeline ==
  <<"18+ months", "12-18 months", "6-12 months", "3-6 months", "1-2 months",
    "0-1 months">>

TierColor == <<"blue", "blue", "blue", "yellow", "orange", "red">>

TierOf(total) == 1 + Cardinality({s \in TierSteps : total >= s})

\* C13: status, timeline and color are fixed by total alone: status is the tier
\* whose steps (25, 45, 60, 75, 85) the total has reached, in the tier order,
\* and the timeline and the color are the ones that tier always carries.
C13_StatusTimelineColorFromTotal ==
  pc = "done" =>
    /\ result.status = TierOrder[TierOf(result.total)]
    /\ result.timeline = TierTimeline[TierOf(result.total)]
    /\ result.color = TierColor[TierOf(result.total)]

\* a result exactly on the last step
C13_Witness ==
  pc = "done" /\ result.total = 85 /\ result.status = "READY_NOW"

\* C14: the breakdown keeps credit in [0, 30], dti in [0, 25], downPayment in
\* [1, 20], employment at 12, reserves in [0, 10] and penalty at 0; bonus is 10
\* for a veteran-eligible status plus 5 for firstTimeBuyer exactly true.
C14_BreakdownWithinBuckets ==
  pc = "done" =>
    /\ result.breakdown.credit \in 0..30
    /\ result.breakdown.dti \in 0..25
    /\ result.breakdown.downPayment \in 1..20
    /\ result.breakdown.employment = 12
    /\ result.breakdown.reserves \in 0..10
    /\ result.breakdown.penalty = 0
    /\ result.breakdown.bonus
         = (IF input.veteranStatus \in VeteranStatuses THEN 10 ELSE 0)
           + (IF input.firstTimeBuyer = True THEN 5 ELSE 0)

\* savings under one percent of the price, for a first-time buyer: the lowest
\* down payment bucket, and the first-time bonus alone
C14_Witness ==
  /\ pc = "done"
  /\ result.breakdown.downPayment = 1
  /\ result.breakdown.dti = 0
  /\ result.breakdown.bonus = 5

\* the order in which identifyGaps pushes the factors
FactorRank(factor) ==
  CASE factor = "credit" -> 1
    [] factor = "down_payment" -> 2
    [] factor = "dti" -> 3
    [] OTHER -> 4

HasGap(gaps, factor) == \E i \in 1..Len(gaps) : gaps[i].factor = factor

\* C15: gaps holds a credit gap iff breakdown.credit < 20, a down_payment gap
\* iff breakdown.downPayment < 10, a dti gap iff breakdown.dti < 14, each once
\* and nothing else; gaps is in non-increasing potentialGain, ties in the
\* order credit, down_payment, dti; recommendations[i] is made from gaps[i]
\* and carries the priority of its place.
C15_GapsAndRecommendations ==
  pc = "done" =>
    LET gaps == result.gaps
        recommendations == result.recommendations
    IN  /\ HasGap(gaps, "credit") <=> result.breakdown.credit < 20
        /\ HasGap(gaps, "down_payment") <=> result.breakdown.downPayment < 10
        /\ HasGap(gaps, "dti") <=> result.breakdown.dti < 14
        /\ \A i \in 1..Len(gaps) : gaps[i].factor \in {"credit", "down_payment", "dti"}
        /\ \A i, j \in 1..Len(gaps) : i # j => gaps[i].factor # gaps[j].factor
        /\ \A i, j \in 1..Len(gaps) :
             i < j =>
               \/ gaps[i].potentialGain > gaps[j].potentialGain
               \/ /\ gaps[i].potentialGain = gaps[j].potentialGain
                  /\ FactorRank(gaps[i].factor) < FactorRank(gaps[j].factor)
        /\ Len(recommendations) = Len(gaps)
        /\ \A i \in 1..Len(gaps) :
             /\ recommendations[i].priority = i
             /\ recommendations[i].impact = gaps[i].potentialGain
             /\ recommendations[i].category
                  = (CASE gaps[i].factor = "credit" -> "credit"
                       [] gaps[i].factor = "down_payment" -> "savings"
                       [] gaps[i].factor = "dti" -> "debt")

\* all three gaps: credit and dti tie and keep their order, down payment moves last
C15_Witness ==
  /\ pc = "done"
  /\ Len(result.gaps) = 3
  /\ result.gaps[1].factor = "credit"
  /\ result.gaps[2].factor = "dti"
  /\ result.gaps[2].potentialGain = result.gaps[1].potentialGain
  /\ result.gaps[3].factor = "down_payment"
  /\ result.recommendations[3].category = "savings"

\* the comfortable (36%) and stretch (43%) prices of a result's parsed values
ComfortableOf(parsed) ==
  maxPriceForDti(parsed.monthlyIncome, parsed.monthlyDebts, 36)

StretchOf(parsed) ==
  maxPriceForDti(parsed.monthlyIncome, parsed.monthlyDebts, 43)

NearestStep(price) == RoundDiv(price, 5000) * 5000

\* C16: sweetSpot.recommendedPrice is the target when target <= comfortable,
\* the comfortable price when comfortable < target <= stretch, and the stretch
\* price when target > stretch, each rounded to the nearest 5000.
C16_RecommendedPriceByBand ==
  pc = "done" =>
    LET target == result.parsedValues.targetPrice
        comfortable == ComfortableOf(result.parsedValues)
        stretch == StretchOf(result.parsedValues)
        recommended == result.sweetSpot.recommendedPrice
    IN  /\ target <= comfortable => recommended = NearestStep(target)
        /\ (comfortable < target /\ target <= stretch)
             => recommended = NearestStep(comfortable)
        /\ target > stretch => recommended = NearestStep(stretch)

\* a target between the comfortable and the stretch price
C16_Witness ==
  /\ pc = "done"
  /\ ComfortableOf(result.parsedValues) < result.parsedValues.targetPrice
  /\ result.parsedValues.targetPrice <= StretchOf(result.parsedValues)
  /\ result.sweetSpot.recommendedPrice = ComfortableOf(result.parsedValues)

\* C17: whenever the sweet spot recommends less than the target price, the
\* whole-percent DTI at the recommended price is at most 43.
C17_SweetSpotWithinLenderCeiling ==
  (pc = "done" /\ result.sweetSpot.recommendedPrice < result.parsedValues.targetPrice)
    => result.sweetSpot.dtiAtPrice <= 43

(***************************************************************************)
(* The five token resolvers called with every kind of token a caller can   *)
(* pass: absent, recognised, unrecognised, and unrecognised but spelled    *)
(* like a property every object inherits.                                  *)
(***************************************************************************)
DefaultingArgs ==
  {[dimension |-> d, token |-> t] :
     d \in Dimensions,
     t \in UNION {tokensOf(e) : e \in Dimensions}
            \cup {Null, Unrecognised} \cup ObjectPrototypeKeys}

DefaultingInit ==
  /\ pc = "ready"
  /\ args \in DefaultingArgs
  /\ input = NullObject
  /\ result = NullObject
  /\ ret = NullObject

\* the resolver of the dimension, and for a credit token the points
\* calculateScore goes on to give the resolved score
ResolveToken ==
  /\ pc = "ready"
  /\ ret' = [amount |-> resolve(args.dimension, args.token),
             creditPoints |-> IF args.dimension = "credit"
                              THEN calculateCreditPoints(getCreditScore(args.token))
                              ELSE NoScore]
  /\ pc' = "done"
  /\ UNCHANGED <<input, result, args>>

DefaultingNext == ResolveToken

DefaultingSpec == DefaultingInit /\ [][DefaultingNext]_vars

\* the default the resolver of a dimension documents
DocumentedDefault(dimension) ==
  CASE dimension = "credit" -> NoScore
    [] dimension = "income" -> 60000
    [] dimension = "price" -> 500000
    [] dimension = "downPayment" -> 20000
    [] dimension = "monthlyDebt" -> 0

\* C18: an absent or unrecognised range token resolves to the default of its
\* dimension (income 60000, price 500000, monthly debt 0, savings 20000), and
\* an absent or unrecognised credit token is an unknown score worth 15 points.
C18_UnknownTokensTakeDefaults ==
  (pc = "done" /\ "amount" \in DOMAIN ret /\ args.token \notin tokensOf(args.dimension))
    => /\ ret.amount = DocumentedDefault(args.dimension)
       /\ args.dimension = "credit" => ret.creditPoints = 15

(***************************************************************************)
(* calculateScoreFromValues: exact figures of a borrower and, optionally,  *)
(* of a co-borrower, merged, bucketed into range tokens and scored.        *)
(***************************************************************************)
\* an optional co-borrower field the caller left out
Undefined == -3

\* the lower of the two scores, or the one that is known
effectiveCreditScore(v) ==
  IF v.coBorrowerCreditScore # Undefined /\ v.coBorrowerCreditScore # NoScore
  THEN IF v.creditScore = NoScore THEN v.coBorrowerCreditScore
       ELSE IF v.creditScore <= v.coBorrowerCreditScore THEN v.creditScore
       ELSE v.coBorrowerCreditScore
  ELSE v.creditScore

effectiveAnnualIncome(v) ==
  IF v.coBorrowerAnnualIncome # Undefined /\ v.coBorrowerAnnualIncome > 0
  THEN v.annualIncome + v.coBorrowerAnnualIncome
  ELSE v.annualIncome

effectiveMonthlyDebts(v) ==
  IF v.coBorrowerMonthlyDebts # Undefined /\ v.coBorrowerMonthlyDebts > 0
  THEN v.monthlyDebts + v.coBorrowerMonthlyDebts
  ELSE v.monthlyDebts

\* the co-borrower left out of the score
scoreOfBorrowerAlone(v) ==
  calculateScore(
    [creditScoreRange |-> getCreditScoreRange(v.creditScore),
     annualIncome |-> getIncomeRange(v.annualIncome),
     downPayment |-> getDownPaymentRange(v.savedForDownPayment),
     priceRange |-> getPriceRange(v.targetHomePrice),
     monthlyDebts |-> getMonthlyDebtRange(v.monthlyDebts),
     firstTimeBuyer |-> v.firstTimeBuyer,
     veteranStatus |-> v.veteranStatus])

calculateScoreFromValues(v) ==
  calculateScore(
    [creditScoreRange |-> getCreditScoreRange(effectiveCreditScore(v)),
     annualIncome |-> getIncomeRange(effectiveAnnualIncome(v)),
     downPayment |-> getDownPaymentRange(v.savedForDownPayment),
     priceRange |-> getPriceRange(v.targetHomePrice),
     monthlyDebts |-> getMonthlyDebtRange(effectiveMonthlyDebts(v)),
     firstTimeBuyer |-> v.firstTimeBuyer,
     veteranStatus |-> v.veteranStatus])

\* A borrower with or without a known score and with or without an income, and
\* a co-borrower whose every field is left out, empty or given, with scores on
\* both sides of the borrower's and amounts that do and do not move the sum
\* into another range.
ValuesInputs ==
  [creditScore : {NoScore, 600, 700, 760},
   annualIncome : {0, 30000, 70000, 120000},
   monthlyDebts : {0, 400, 1800},
   savedForDownPayment : {5000, 60000},
   targetHomePrice : {450000, 750000},
   firstTimeBuyer : {True, Null},
   veteranStatus : {Null},
   coBorrowerCreditScore : {Undefined, NoScore, 560, 700, 780},
   coBorrowerAnnualIncome : {Undefined, 0, 5000, 35000, 90000},
   coBorrowerMonthlyDebts : {Undefined, 0, 200, 900}]

ValuesInit ==
  /\ pc = "ready"
  /\ args \in ValuesInputs
  /\ input = NullObject
  /\ result = NullObject
  /\ ret = NullObject

CalculateScoreFromValues ==
  /\ pc = "ready"
  /\ ret' = [result |-> calculateScoreFromValues(args)]
  /\ pc' = "done"
  /\ UNCHANGED <<input, result, args>>

ValuesNext == CalculateScoreFromValues

ValuesSpec == ValuesInit /\ [][ValuesNext]_vars

\* a co-borrower field counted as the claim counts it: nothing when left out
Given(amount) == IF amount = Undefined THEN 0 ELSE amount

Known(score) == score # Undefined /\ score # NoScore

\* the merged figures as the claim states them
MergedCredit(v) ==
  IF Known(v.creditScore) /\ Known(v.coBorrowerCreditScore)
  THEN CHOOSE m \in {v.creditScore, v.coBorrowerCreditScore} :
         m <= v.creditScore /\ m <= v.coBorrowerCreditScore
  ELSE IF Known(v.creditScore) THEN v.creditScore
  ELSE IF Known(v.coBorrowerCreditScore) THEN v.coBorrowerCreditScore
  ELSE NoScore

MergedTokens(v) ==
  [creditScoreRange |-> getCreditScoreRange(MergedCredit(v)),
   annualIncome |-> getIncomeRange(v.annualIncome + Given(v.coBorrowerAnnualIncome)),
   downPayment |-> getDownPaymentRange(v.savedForDownPayment),
   priceRange |-> getPriceRange(v.targetHomePrice),
   monthlyDebts |-> getMonthlyDebtRange(v.monthlyDebts + Given(v.coBorrowerMonthlyDebts)),
   firstTimeBuyer |-> v.firstTimeBuyer,
   veteranStatus |-> v.veteranStatus]

\* C19: calculateScoreFromValues(v) is calculateScore of the range tokens of the
\* merged values: the lower of the two credit scores when both are known and
\* the known one otherwise, the sum of the two annual incomes, the sum of the
\* two monthly debts; without co-borrower fields, the borrower's own values.
C19_ValuesScoreAsMergedTokens ==
  (pc = "done" /\ "result" \in DOMAIN ret) =>
    ret.result = calculateScore(MergedTokens(args))

\* a co-borrower with the lower score, whose income and debts both move the
\* household into another range, has been scored
C19_Witness ==
  /\ pc = "done"
  /\ "result" \in DOMAIN ret
  /\ args.creditScore = 700 /\ args.coBorrowerCreditScore = 560
  /\ args.annualIncome = 70000 /\ args.coBorrowerAnnualIncome = 35000
  /\ args.monthlyDebts = 400 /\ args.coBorrowerMonthlyDebts = 900
  /\ ret.result.parsedValues.creditScore = getCreditScore("below-580")
  /\ ret.result.parsedValues.annualIncome = getIncomeAmount("100k-150k")
  /\ ret.result.parsedValues.monthlyDebts = getMonthlyDebtAmount("1000-2000")

\* the kinds of blocker the six rules produce: rules 1 and 2 a DTI blocker
\* (severe or minor), rules 3 and 4 a down-payment blocker, rules 5 and 6 a
\* credit blocker
BlockerTypes == {"DTI", "DOWN_PAYMENT", "CREDIT"}

IsAssistanceExplanation(solution) ==
  /\ solution.type = "DPA_PROGRAMS"
  /\ solution.actionLabel \in {"Explore FHA options", "See your options"}

CitesIncomeLimit(solution) ==
  IF "reasons" \in DOMAIN solution
  THEN "income under $141k" \in Range(solution.reasons)
  ELSE solution.description = "Your income exceeds assistance limits ($141k)"

CitesCreditRequirement(solution) ==
  IF "reasons" \in DOMAIN solution
  THEN "660+ credit" \in Range(solution.reasons)
  ELSE solution.description = "Down payment assistance requires 660+ credit"

\* C21: in both down-payment rules, an explanation of why assistance is not
\* available cites the income limit whenever annual income is over 141400 and
\* the 660 credit requirement whenever the known score is under 660, and so
\* cites both when both apply.
C21_ExplanationCitesEveryReason ==
  (pc = "done" /\ result.primaryBlocker # NullObject
     /\ result.primaryBlocker.type = "DOWN_PAYMENT") =>
    \A i \in 1..Len(result.primaryBlocker.solutions) :
      LET solution == result.primaryBlocker.solutions[i]
      IN  IsAssistanceExplanation(solution) =>
            /\ result.parsedValues.annualIncome > 141400 => CitesIncomeLimit(solution)
            /\ (result.parsedValues.creditScore # NoScore
                  /\ result.parsedValues.creditScore < 660)
                 => CitesCreditRequirement(solution)

\* the solutions in which a blocker offers FHA: the note of the moderate-DTI
\* rule, the fallback of the savings-shortfall rule, the FHA-today note of the
\* credit rule, and the impact line of the thin-down-payment rule
OffersFha(solution) ==
  /\ solution.type = "DPA_PROGRAMS"
  /\ \/ solution.actionLabel = "Explore FHA options"
     \/ "impact" \in DOMAIN solution /\ solution.impact = "FHA is available"

\* creditScore || 650
AssumedCredit(creditScore) ==
  IF creditScore = NoScore \/ creditScore = 0 THEN 650 ELSE creditScore

\* C22: whenever the primaryBlocker offers FHA, the profile's credit (650 when
\* unknown) is at least 580 and 'FHA Loan' is among result.programs.
C22_BlockerAndMatcherAgreeOnFha ==
  (pc = "done" /\ result.primaryBlocker # NullObject) =>
    \A i \in 1..Len(result.primaryBlocker.solutions) :
      OffersFha(result.primaryBlocker.solutions[i]) =>
        /\ AssumedCredit(result.parsedValues.creditScore) >= 580
        /\ "FHA Loan" \in Range(result.programs)

\* the whole-percent DTI the profile has once one solution of the severe-DTI
\* rule is applied alone; monthlyIncome is in twelfths of a dollar
DtiAfter(solution, parsed) ==
  CASE solution.type = "ADJUST_PRICE" ->
         calculateCurrentDti(parsed.monthlyIncome, parsed.monthlyDebts,
                             estimateMonthlyPayment(solution.newPrice))
    [] solution.type = "PAY_DOWN_DEBT" ->
         calculateCurrentDti(parsed.monthlyIncome,
                             parsed.monthlyDebts - solution.debtReduction,
                             estimateMonthlyPayment(parsed.targetPrice))
    [] solution.type = "INCREASE_INCOME" ->
         calculateCurrentDti(parsed.monthlyIncome + 12 * solution.incomeIncrease,
                             parsed.monthlyDebts,
                             estimateMonthlyPayment(parsed.targetPrice))

IsSevereDti(blocker) ==
  /\ blocker # NullObject
  /\ blocker.type = "DTI"
  /\ blocker.severity \in {"critical", "significant"}

\* C23: every solution of a blocker raised by the DTI > 50% rule, applied
\* alone, brings the whole-percent DTI to 43 or less; a debt reduction is
\* positive and no more than the current monthly debts.
C23_SevereDtiSolutionsReachCeiling ==
  (pc = "done" /\ IsSevereDti(result.primaryBlocker)) =>
    \A i \in 1..Len(result.primaryBlocker.solutions) :
      LET solution == result.primaryBlocker.solutions[i]
      IN  /\ DtiAfter(solution, result.parsedValues) <= 43
          /\ solution.type = "PAY_DOWN_DEBT" =>
                /\ solution.debtReduction > 0
                /\ solution.debtReduction <= result.parsedValues.monthlyDebts

\* the prices a finished calculateScore has handed to estimateMonthlyPayment and
\* that its result shows: the target price (detectPrimaryBlocker,
\* calculateSweetSpot, calculatePathToGoal), the recommended price of the sweet
\* spot, and the new price of every ADJUST_PRICE solution
paymentPrices(res) ==
  {res.parsedValues.targetPrice, res.sweetSpot.recommendedPrice}
    \cup (IF res.primaryBlocker = NullObject THEN {}
          ELSE {res.primaryBlocker.solutions[i].newPrice :
                  i \in {j \in 1..Len(res.primaryBlocker.solutions) :
                           res.primaryBlocker.solutions[j].type = "ADJUST_PRICE"}})

\* C24: the payment model is never evaluated at price 0: every price
\* calculateScore hands to estimateMonthlyPayment is above 0.
C24_PaymentNeverAtPriceZero ==
  pc = "done" => \A price \in paymentPrices(result) : price > 0

\* C25: when the sweet spot recommends the resolved target price it repeats the
\* headline score, status and timeline with a score difference of 0, also for
\* an absent or unrecognised priceRange; and the score difference is never
\* negative.
C25_SweetSpotRepeatsHeadline ==
  pc = "done" =>
    /\ result.sweetSpot.comparedToTarget.scoreDifference >= 0
    /\ result.sweetSpot.recommendedPrice = result.parsedValues.targetPrice =>
          /\ result.sweetSpot.scoreAtPrice = result.total
          /\ result.sweetSpot.statusAtPrice = result.status
          /\ result.sweetSpot.timelineAtPrice = result.timeline
          /\ result.sweetSpot.comparedToTarget.scoreDifference = 0

\* C26: the annual income a token resolves to, and so the monthly income the
\* scorer divides by, is strictly positive for every token.
C26_MonthlyIncomePositive ==
  (pc = "done" /\ "amount" \in DOMAIN ret /\ args.dimension = "income") =>
    ret.amount > 0

\* C27: with a veteranStatus of active, veteran, guard-reserve or spouse, the
\* primaryBlocker is never of type DOWN_PAYMENT, whatever the saved amount and
\* the target price are.
C27_NoDownPaymentBlockerForVeterans ==
  (pc = "done" /\ input.veteranStatus \in VeteranStatuses
     /\ result.primaryBlocker # NullObject) =>
    result.primaryBlocker.type # "DOWN_PAYMENT"

\* a veteran whose savings are under 3.5% of the target and whose DTI raises no
\* blocker has been scored, and the blocker found is about credit
C27_Witness ==
  /\ pc = "done"
  /\ input.veteranStatus = "veteran"
  /\ result.parsedValues.savedAmount * 1000 < result.parsedValues.targetPrice * 35
  /\ result.breakdown.dti >= 18
  /\ result.primaryBlocker # NullObject
  /\ result.primaryBlocker.type = "CREDIT"

HasChange(path, type) ==
  \E i \in 1..Len(path.requiredChanges) : path.requiredChanges[i].type = type

\* C28: whenever the primaryBlocker is a DTI blocker of severity critical or
\* significant, the sweet spot recommends a price at least 10000 below the
\* target and pathToGoal is not null and lists an income_increase.
C28_SevereDtiHasPathToGoal ==
  (pc = "done" /\ IsSevereDti(result.primaryBlocker)) =>
    /\ result.sweetSpot.recommendedPrice <= result.parsedValues.targetPrice - 10000
    /\ result.pathToGoal # NullObject
    /\ HasChange(result.pathToGoal, "income_increase")

\* a critical DTI blocker next to a path to the goal that asks for more income
C28_Witness ==
  /\ pc = "done"
  /\ IsSevereDti(result.primaryBlocker)
  /\ result.primaryBlocker.severity = "critical"
  /\ result.pathToGoal # NullObject
  /\ HasChange(result.pathToGoal, "income_increase")
  /\ result.sweetSpot.recommendedPrice > 0

IsDownPaymentBlocker(blocker) == blocker # NullObject /\ blocker.type = "DOWN_PAYMENT"

\* the thin-down-payment rule quotes a 5% target, the savings-shortfall rule 3.5%
FromThinDownPaymentRule(blocker) == blocker.targetValue = "5%+"

C29_WitnessThin ==
  /\ pc = "done"
  /\ IsDownPaymentBlocker(result.primaryBlocker)
  /\ FromThinDownPaymentRule(result.primaryBlocker)
  /\ result.breakdown.downPayment = 7

====
